---- MODULE Spec2Model ----
(***************************************************************************)
(* Model of the generated Linux plugin registrant of the flutter_gallery   *)
(* integration test:                                                       *)
(*                                                                         *)
(*   void fl_register_plugins(FlPluginRegistry* registry) {                *)
(*     g_autoptr(FlPluginRegistrar) url_launcher_linux_registrar =         *)
(*         fl_plugin_registry_get_registrar_for_plugin(registry,           *)
(*                                                "UrlLauncherPlugin");    *)
(*     url_launcher_plugin_register_with_registrar(                        *)
(*         url_launcher_linux_registrar);                                  *)
(*   }                                                                     *)
(*                                                                         *)
(* The function is modelled statement by statement.  Every call it makes   *)
(* into the embedder, the plugin or GLib is appended to `trace`; the       *)
(* value the registrar lookup returns is chosen by the environment.        *)
(***************************************************************************)
EXTENDS Naturals, Sequences, FiniteSets

VARIABLES
    pc,                             \* statement fl_register_plugins is at, "idle" between calls
    registry,                       \* the parameter `registry` of the call in progress
    url_launcher_linux_registrar,   \* the g_autoptr local of the call in progress
    trace,                          \* calls made so far by the call in progress
    history                         \* completed calls: [registry, trace], oldest first

vars == <<pc, registry, url_launcher_linux_registrar, trace, history>>

----------------------------------------------------------------------------
(* Bounds and value sets *)

\* Number of times the host calls fl_register_plugins in one run.
MaxCalls == 3

NULL == "NULL"

\* Registry handles a host may pass (FlPluginRegistry*, e.g. two FlViews).
Registries == {"viewA", "viewB"}

\* Registrar objects the embedder may hand out (FlPluginRegistrar*).
Registrars == {"registrarX", "registrarY"}

\* Everything fl_plugin_registry_get_registrar_for_plugin can return.
LookupResults == Registrars \cup {NULL}

----------------------------------------------------------------------------
(* The callees *)

GetRegistrarFn == "fl_plugin_registry_get_registrar_for_plugin"
RegisterFn     == "url_launcher_plugin_register_with_registrar"
UnrefFn        == "g_object_unref"

\* The string literal passed to the lookup.
PluginName == "UrlLauncherPlugin"

\* One recorded call: callee, first argument, second argument, returned value.
Event(fn, a1, a2, ret) == [fn |-> fn, a1 |-> a1, a2 |-> a2, ret |-> ret]

----------------------------------------------------------------------------
(* The statements of fl_register_plugins *)

\* Line 17: the lookup the initialiser makes; res is what the embedder returns.
GetRegistrarCalls(reg, res) ==
    <<Event(GetRegistrarFn, reg, PluginName, res)>>

\* Mutant: a g_return_if_fail-style guard on the looked-up registrar.
AfterLookup_ReturnOnNull(res) ==
    IF res = NULL THEN "L19" ELSE "L18"

\* Lines 17-18: control falls through to the registration whatever res is.
AfterLookup(res) == "L18"

\* Mutant: the registration call appears twice.
RegisterCalls_Twice(registrar) ==
    <<Event(RegisterFn, registrar, NULL, NULL),
      Event(RegisterFn, registrar, NULL, NULL)>>

\* Mutant: the registration is not handed the looked-up registrar.
RegisterCalls_NullArg(registrar) ==
    <<Event(RegisterFn, NULL, NULL, NULL)>>

\* Line 18: the one registration call, with the local as its argument.
RegisterCalls(registrar) ==
    <<Event(RegisterFn, registrar, NULL, NULL)>>

\* Mutant: a plain pointer instead of g_autoptr, the reference is never dropped.
AutoptrCleanup_Leak(p) == <<>>

\* Lines 16 and 19: leaving the scope of a g_autoptr local unrefs it when it
\* is not NULL, and does nothing when it is.
AutoptrCleanup(p) ==
    IF p = NULL THEN <<>> ELSE <<Event(UnrefFn, p, NULL, NULL)>>

\* Line 15: the host calls fl_register_plugins(r).
Enter(r) ==
    /\ pc = "idle"
    /\ Len(history) < MaxCalls
    /\ pc' = "L17"
    /\ registry' = r
    /\ url_launcher_linux_registrar' = NULL
    /\ trace' = <<>>
    /\ UNCHANGED history

\* Lines 16-17: the local is initialised with the result of the lookup.
L17(res) ==
    /\ pc = "L17"
    /\ trace' = trace \o GetRegistrarCalls(registry, res)
    /\ url_launcher_linux_registrar' = res
    /\ pc' = AfterLookup(res)
    /\ UNCHANGED <<registry, history>>

\* Mutant: a static "already registered" flag skips the registration on
\* every call after the first.
L18_OnlyFirstCall ==
    /\ pc = "L18"
    /\ trace' = IF Len(history) = 0
                THEN trace \o RegisterCalls(url_launcher_linux_registrar)
                ELSE trace
    /\ pc' = "L19"
    /\ UNCHANGED <<registry, url_launcher_linux_registrar, history>>

\* Line 18: the registration call.
L18 ==
    /\ pc = "L18"
    /\ trace' = trace \o RegisterCalls(url_launcher_linux_registrar)
    /\ pc' = "L19"
    /\ UNCHANGED <<registry, url_launcher_linux_registrar, history>>

\* Mutant: the registry handle is released on the way out as well.
L19_ReleasesRegistry ==
    /\ pc = "L19"
    /\ history' = Append(history,
                    [registry |-> registry,
                     trace |-> trace \o AutoptrCleanup(url_launcher_linux_registrar)
                                     \o <<Event(UnrefFn, registry, NULL, NULL)>>])
    /\ pc' = "idle"
    /\ registry' = NULL
    /\ url_launcher_linux_registrar' = NULL
    /\ trace' = <<>>

\* Line 19: the closing brace; the g_autoptr local goes out of scope and
\* the function returns (void).
L19 ==
    /\ pc = "L19"
    /\ history' = Append(history,
                    [registry |-> registry,
                     trace |-> trace \o AutoptrCleanup(url_launcher_linux_registrar)])
    /\ pc' = "idle"
    /\ registry' = NULL
    /\ url_launcher_linux_registrar' = NULL
    /\ trace' = <<>>

Init ==
    /\ pc = "idle"
    /\ registry = NULL
    /\ url_launcher_linux_registrar = NULL
    /\ trace = <<>>
    /\ history = <<>>

Next ==
    \/ \E r \in Registries : Enter(r)
    \/ \E res \in LookupResults : L17(res)
    \/ L18
    \/ L19

Spec == Init /\ [][Next]_vars

----------------------------------------------------------------------------
(* Observations over the recorded calls *)

CompletedCalls == 1..Len(history)

\* Indices of the events of t that call fn.
CallsTo(t, fn) == {k \in DOMAIN t : t[k].fn = fn}

NumFn(t, fn) == Cardinality(CallsTo(t, fn))

RECURSIVE Flatten(_)
Flatten(h) == IF h = <<>> THEN <<>> ELSE Head(h).trace \o Flatten(Tail(h))

\* Every call fl_register_plugins has made since the start of the run.
AllEvents == Flatten(history) \o trace

\* The value the lookup of trace t returned (t holds a lookup).
LookupRet(t) == t[CHOOSE k \in CallsTo(t, GetRegistrarFn) : TRUE].ret

\* The lookups and registrations of t, in order, with the registrar objects
\* (which the embedder chooses) abstracted away.
CallsMade(t) ==
    LET s == SelectSeq(t, LAMBDA e : e.fn # UnrefFn)
    IN  [k \in DOMAIN s |->
            [fn |-> s[k].fn,
             a1 |-> IF s[k].fn = GetRegistrarFn THEN s[k].a1 ELSE "registrar",
             a2 |-> s[k].a2]]

ExpectedCalls(reg) ==
    <<[fn |-> GetRegistrarFn, a1 |-> reg, a2 |-> PluginName],
      [fn |-> RegisterFn, a1 |-> "registrar", a2 |-> NULL]>>

\* References to registrars obtained from lookups / dropped by unrefs.
Acquired == Cardinality({k \in DOMAIN AllEvents :
                AllEvents[k].fn = GetRegistrarFn /\ AllEvents[k].ret # NULL})
Released == Cardinality({k \in DOMAIN AllEvents :
                AllEvents[k].fn = UnrefFn /\ AllEvents[k].a1 \in Registrars})

InProgress == IF pc = "idle" THEN 0 ELSE 1

----------------------------------------------------------------------------
(* Claims *)

\* C1: every call of fl_register_plugins invokes
\* url_launcher_plugin_register_with_registrar exactly once and no other
\* plugin's registration routine; after n calls the number of url-launcher
\* registrations is exactly n.
C1_OneRegistrationPerCall ==
    /\ \A i \in CompletedCalls : NumFn(history[i].trace, RegisterFn) = 1
    /\ \A k \in DOMAIN AllEvents :
          AllEvents[k].fn \in {GetRegistrarFn, RegisterFn, UnrefFn}
    /\ NumFn(AllEvents, RegisterFn)
          = Len(history) + (IF pc = "L19" THEN 1 ELSE 0)

C1_Witness ==
    /\ pc = "idle"
    /\ Len(history) = 2
    /\ NumFn(AllEvents, RegisterFn) = 2

\* C2: fl_register_plugins has no error path: whatever the lookup returns,
\* a null registrar included, control goes from the lookup to the
\* registration call and from there to the return; the function returns
\* only from its closing brace, after the registration.
C2_NoErrorPath ==
    [][ /\ (pc = "L17" => pc' = "L18")
        /\ (pc = "L18" =>
               /\ pc' = "L19"
               /\ NumFn(trace', RegisterFn) = NumFn(trace, RegisterFn) + 1)
        /\ (pc # "idle" /\ pc' = "idle" =>
               /\ pc = "L19"
               /\ NumFn(trace, RegisterFn) = 1
               /\ Len(history') = Len(history) + 1) ]_vars

C2_Witness ==
    \E i \in CompletedCalls :
        /\ LookupRet(history[i].trace) = NULL
        /\ \E k \in CallsTo(history[i].trace, RegisterFn) :
              history[i].trace[k].a1 = NULL

\* C3: fl_register_plugins keeps no state between calls: the calls it makes
\* (one lookup on the passed registry under the name "UrlLauncherPlugin",
\* then one registration) are the same on every invocation and depend only
\* on the registry argument, not on the calls made before.
C3_NoStateBetweenCalls ==
    /\ \A i, j \in CompletedCalls :
          history[i].registry = history[j].registry =>
              CallsMade(history[i].trace) = CallsMade(history[j].trace)
    /\ \A i \in CompletedCalls :
          CallsMade(history[i].trace) = ExpectedCalls(history[i].registry)

C3_Witness ==
    /\ Len(history) = 3
    /\ history[1].registry = history[3].registry
    /\ history[2].registry # history[1].registry
    /\ LookupRet(history[1].trace) # LookupRet(history[3].trace)
    /\ CallsMade(history[1].trace) = CallsMade(history[3].trace)

\* The lookup of a call on registry reg comes first, is the only lookup, is
\* made on reg under PluginName, and its result is what gets registered.
LookupThenRegister(reg, t) ==
    /\ NumFn(t, GetRegistrarFn) <= 1
    /\ t # <<>> => t[1].fn = GetRegistrarFn
    /\ \A k \in CallsTo(t, GetRegistrarFn) :
          t[k].a1 = reg /\ t[k].a2 = PluginName
    /\ \A k \in CallsTo(t, RegisterFn) :
          \E m \in CallsTo(t, GetRegistrarFn) :
              m < k /\ t[k].a1 = t[m].ret

\* C5: within one call the registrar lookup happens strictly before the
\* registration, exactly one lookup is made, on the caller's registry with
\* the name "UrlLauncherPlugin", and the registrar registered is exactly the
\* value the lookup returned.
C5_LookupBeforeRegister ==
    /\ \A i \in CompletedCalls :
          /\ NumFn(history[i].trace, GetRegistrarFn) = 1
          /\ LookupThenRegister(history[i].registry, history[i].trace)
    /\ LookupThenRegister(registry, trace)
    /\ pc \in {"L18", "L19"} => NumFn(trace, GetRegistrarFn) = 1

C5_Witness ==
    \E i \in CompletedCalls :
        LET t == history[i].trace
        IN  /\ LookupRet(t) \in Registrars
            /\ \E k \in CallsTo(t, RegisterFn) : k = 2 /\ t[k].a1 = LookupRet(t)

\* The reference a call obtained is dropped once, by the last thing the
\* call does, after the registration; a call in progress has dropped nothing.
ReleasedOnceOnReturn ==
    /\ \A i \in CompletedCalls :
          LET t == history[i].trace
          IN  IF LookupRet(t) = NULL
              THEN NumFn(t, UnrefFn) = 0
              ELSE /\ CallsTo(t, UnrefFn) = {Len(t)}
                   /\ t[Len(t)].a1 = LookupRet(t)
                   /\ \E k \in CallsTo(t, RegisterFn) : k < Len(t)
    /\ NumFn(trace, UnrefFn) = 0
    /\ pc = "idle" => Acquired = Released

\* A call holds a reference from the moment its lookup has returned a
\* registrar until it returns.
Holding ==
    IF pc \in {"L18", "L19"} /\ url_launcher_linux_registrar # NULL THEN 1 ELSE 0

\* C6 (as stated): the registrar reference is released exactly once, on
\* return and after the registration, and references acquired minus
\* references released equals the number of calls in progress.
C6_AsStated ==
    /\ ReleasedOnceOnReturn
    /\ Acquired = Released + InProgress

\* C6 (amended): the registrar reference is released exactly once, on
\* return and after the registration, never before or during it; between
\* calls no reference is outstanding, and references acquired minus
\* references released equals the number of calls in progress whose lookup
\* has returned a non-null registrar.
C6_ReleasedOnceAfterRegister ==
    /\ ReleasedOnceOnReturn
    /\ Acquired = Released + Holding

C6_Witness ==
    /\ pc = "idle"
    /\ Acquired = 2
    /\ Released = 2
    /\ \E i \in CompletedCalls : LookupRet(history[i].trace) = NULL

\* Only the lookup is handed the registry; nothing refs or unrefs it.
RegistryOnlyRead(t) ==
    \A k \in DOMAIN t :
        t[k].fn # GetRegistrarFn =>
            t[k].a1 \notin Registries /\ t[k].a2 \notin Registries

\* C7: fl_register_plugins does not modify or release the registry handle it
\* is given: the parameter keeps its value for the whole call and is passed
\* to the one lookup only.
C7_RegistryUntouched ==
    /\ [](RegistryOnlyRead(AllEvents))
    /\ [][(pc \in {"L17", "L18"}) => (registry' = registry)]_vars

C7_Witness ==
    /\ pc = "idle"
    /\ \E i \in CompletedCalls :
          LET t == history[i].trace
          IN  /\ t[1].fn = GetRegistrarFn
              /\ t[1].a1 = history[i].registry
              /\ history[i].registry \in Registries
              /\ NumFn(t, UnrefFn) = 1

====
